---------------------------- MODULE Spec2Model ----------------------------
(***************************************************************************)
(* Model of src/parse_file.py: the activity-stream segmenter of            *)
(* parse_ticket, its final KB filter, and the helpers normalize_type and   *)
(* clean_public_content.                                                   *)
(*                                                                         *)
(* A Python str is a sequence of one-character strings.  The characters    *)
(* outside ASCII are written by code point: "U+2022" is the bullet, and    *)
(* "U+00E2" "U+20AC" "U+00A2" are the three characters of the separator    *)
(* literal of normalize_type.  Python's None is the value None below,      *)
(* which is no str: "None" is not a character.                             *)
(***************************************************************************)
EXTENDS Integers, Sequences, FiniteSets

VARIABLES
    pc,                \* position in parse_ticket / in the cleaner run
    cards,             \* ids of the cards the loop has consumed, in order
    current_activity,  \* <<>> for None, <<a>> for the open activity dict a
    activities,        \* the list `activities`
    closed_blocks,     \* history: content list of each activity as it was appended
    kb_entries,        \* the list parse_ticket returns
    text,              \* argument of clean_public_content
    cleaned_lines,     \* its local `cleaned_lines` at return
    cleaned,           \* its return value
    html_file,         \* index in HTML_FILES of the file parse_ticket is called with
    all_kb_entries,    \* the list `all_kb_entries` of the batch loop
    returned           \* history: the list each call of parse_ticket returned, in call order

vars == <<pc, cards, current_activity, activities, closed_blocks, kb_entries,
          text, cleaned_lines, cleaned, html_file, all_kb_entries, returned>>

\* ------------------------------------------------------------------
\* Bounds
\* ------------------------------------------------------------------

MaxCards == 4

MaxBatchCards == 7

MaxLines == 4

\* ------------------------------------------------------------------
\* Python values and str methods
\* ------------------------------------------------------------------

None == <<"None">>

LF == "\n"

CR == "\r"

\* the characters str.strip() removes (those of them the inputs use)
Whitespace == {" ", "\t", LF, CR}

\* the line boundaries str.splitlines() splits at (those of them the inputs use)
LineBreaks == {LF, CR}

\* the lower-case letter of each upper-case letter
ToLower ==
    [A |-> "a", B |-> "b", C |-> "c", D |-> "d", E |-> "e", F |-> "f", G |-> "g",
     H |-> "h", I |-> "i", J |-> "j", K |-> "k", L |-> "l", M |-> "m", N |-> "n",
     O |-> "o", P |-> "p", Q |-> "q", R |-> "r", S |-> "s", T |-> "t", U |-> "u",
     V |-> "v", W |-> "w", X |-> "x", Y |-> "y", Z |-> "z"]

UpperCase == DOMAIN ToLower

LowerChar(c) == IF c \in UpperCase THEN ToLower[c] ELSE c

\* str.lower()
Lower(s) == [i \in 1..Len(s) |-> LowerChar(s[i])]

\* sub occurs in s at index i
OccursAt(s, sub, i) ==
    /\ i + Len(sub) - 1 <= Len(s)
    /\ \A k \in 1..Len(sub) : s[i + k - 1] = sub[k]

\* Python's `sub in s`
Contains(s, sub) == \E i \in 1..(Len(s) - Len(sub) + 1) : OccursAt(s, sub, i)

\* s.startswith(prefix): what re.match of a literal pattern anchored by ^ decides
StartsWith(s, prefix) == OccursAt(s, prefix, 1)

\* index of the first occurrence of sub in s, 0 when there is none
Find(s, sub) ==
    IF Contains(s, sub)
    THEN CHOOSE i \in 1..(Len(s) - Len(sub) + 1) :
            /\ OccursAt(s, sub, i)
            /\ \A j \in 1..(i - 1) : ~OccursAt(s, sub, j)
    ELSE 0

\* s.split(sep)[0]
SplitFirst(s, sep) ==
    IF Find(s, sep) = 0 THEN s ELSE SubSeq(s, 1, Find(s, sep) - 1)

\* str.strip()
RECURSIVE FirstKept(_, _)
FirstKept(s, i) ==
    IF i > Len(s) \/ s[i] \notin Whitespace THEN i ELSE FirstKept(s, i + 1)

RECURSIVE LastKept(_, _)
LastKept(s, i) ==
    IF i < 1 \/ s[i] \notin Whitespace THEN i ELSE LastKept(s, i - 1)

Strip(s) == SubSeq(s, FirstKept(s, 1), LastKept(s, Len(s)))

RECURSIVE JoinFrom(_, _, _)
JoinFrom(parts, sep, i) ==
    IF i > Len(parts) THEN <<>>
    ELSE IF i = Len(parts) THEN parts[i]
    ELSE parts[i] \o sep \o JoinFrom(parts, sep, i + 1)

\* sep.join(parts)
Join(sep, parts) == JoinFrom(parts, sep, 1)

RECURSIVE SplitLinesFrom(_, _, _, _)
SplitLinesFrom(s, i, cur, acc) ==
    IF i > Len(s) THEN (IF cur = <<>> THEN acc ELSE Append(acc, cur))
    ELSE IF s[i] = CR /\ i < Len(s) /\ s[i + 1] = LF
         THEN SplitLinesFrom(s, i + 2, <<>>, Append(acc, cur))
    ELSE IF s[i] \in LineBreaks
         THEN SplitLinesFrom(s, i + 1, <<>>, Append(acc, cur))
    ELSE SplitLinesFrom(s, i + 1, Append(cur, s[i]), acc)

\* str.splitlines(): no empty last line after a final line break
SplitLines(s) == SplitLinesFrom(s, 1, <<>>, <<>>)

\* length of the run of LF that starts at index i of s
RECURSIVE RunOfLF(_, _)
RunOfLF(s, i) ==
    IF i <= Len(s) /\ s[i] = LF THEN 1 + RunOfLF(s, i + 1) ELSE 0

RECURSIVE CollapseFrom(_, _)
CollapseFrom(s, i) ==
    IF i > Len(s) THEN <<>>
    ELSE IF RunOfLF(s, i) >= 3
         THEN <<LF, LF>> \o CollapseFrom(s, i + RunOfLF(s, i))
    ELSE <<s[i]>> \o CollapseFrom(s, i + 1)

RECURSIVE CollapseFromFour(_, _)
CollapseFromFour(s, i) ==
    IF i > Len(s) THEN <<>>
    ELSE IF RunOfLF(s, i) >= 4
         THEN <<LF, LF>> \o CollapseFromFour(s, i + RunOfLF(s, i))
    ELSE <<s[i]>> \o CollapseFromFour(s, i + 1)

\* as CollapseNewlines, for the pattern \n{4,}
CollapseNewlinesFromFour(s) == CollapseFromFour(s, 1)

\* re.sub(r"\n{3,}", "\n\n", s)
CollapseNewlines(s) == CollapseFrom(s, 1)

\* ------------------------------------------------------------------
\* Configuration and helpers of parse_file.py
\* ------------------------------------------------------------------

InternalWorkNotes == <<"I","n","t","e","r","n","a","l"," ","W","o","r","k"," ","n","o","t","e","s">>

AdditionalComments == <<"A","d","d","i","t","i","o","n","a","l"," ","c","o","m","m","e","n","t","s">>

KB_TYPES == {InternalWorkNotes, AdditionalComments}

\* the literal normalize_type splits at
TypeSeparator == <<"U+00E2","U+20AC","U+00A2">>

normalize_type(label) == Strip(SplitFirst(label, TypeSeparator))

STOP_MARKERS == <<
    <<"-","-">>,
    <<"A","l","l"," ","e","l","e","c","t","r","o","n","i","c"," ","m","a","i","l"," ","m","e","s","s","a","g","e","s">>,
    <<"P","u","b","l","i","c"," ","R","e","c","o","r","d","s"," ","L","a","w">>,
    <<"S","c","h","e","d","u","l","e"," ","a">>,
    <<"P","r","o","f","e","s","s","o","r"," ","a","n","d">>,
    <<"C","o","l","l","e","g","e"," ","o","f">>,
    <<"D","e","p","a","r","t","m","e","n","t"," ","o","f">>,
    <<"N","o","r","t","h"," ","C","a","r","o","l","i","n","a"," ","S","t","a","t","e"," ","U","n","i","v","e","r","s","i","t","y">>,
    <<"C","a","m","p","u","s"," ","B","o","x">> >>

\* the literal prefixes the two patterns ^reply from: and ^received from: match
HEADER_PATTERNS == <<
    <<"r","e","p","l","y"," ","f","r","o","m",":">>,
    <<"r","e","c","e","i","v","e","d"," ","f","r","o","m",":">> >>

\* marker.lower() of each marker
LoweredMarkers == [m \in 1..Len(STOP_MARKERS) |-> Lower(STOP_MARKERS[m])]

\* as HitsStopMarker, with the marker compared to the whole line
HitsStopMarkerWholeLine(stripped) ==
    LET low == Lower(stripped)
    IN  \E m \in 1..Len(STOP_MARKERS) : low = LoweredMarkers[m]

\* any(marker.lower() in stripped.lower() for marker in STOP_MARKERS)
HitsStopMarker(stripped) ==
    LET low == Lower(stripped)
    IN  \E m \in 1..Len(STOP_MARKERS) : Contains(low, LoweredMarkers[m])

\* as MatchesHeader, with re.search in place of re.match
MatchesHeaderAnywhere(stripped) ==
    LET low == Lower(stripped)
    IN  \E p \in 1..Len(HEADER_PATTERNS) : Contains(low, HEADER_PATTERNS[p])

\* any(re.match(pat, stripped.lower()) for pat in HEADER_PATTERNS)
MatchesHeader(stripped) ==
    LET low == Lower(stripped)
    IN  \E p \in 1..Len(HEADER_PATTERNS) : StartsWith(low, HEADER_PATTERNS[p])

\* as CleanLoop, with the header patterns matched against the line as it is,
\* not stripped
RECURSIVE CleanLoopHeaderOnRawLine(_, _, _)
CleanLoopHeaderOnRawLine(lines, i, acc) ==
    IF i > Len(lines) THEN acc
    ELSE LET stripped == Strip(lines[i])
         IN  IF HitsStopMarker(stripped) THEN acc
             ELSE IF MatchesHeader(lines[i])
                  THEN CleanLoopHeaderOnRawLine(lines, i + 1, acc)
             ELSE CleanLoopHeaderOnRawLine(lines, i + 1, Append(acc, stripped))

\* the loop of clean_public_content over lines[i..]: break at a stop marker,
\* continue past a header, append the stripped line otherwise
RECURSIVE CleanLoop(_, _, _)
CleanLoop(lines, i, acc) ==
    IF i > Len(lines) THEN acc
    ELSE LET stripped == Strip(lines[i])
         IN  IF HitsStopMarker(stripped) THEN acc
             ELSE IF MatchesHeader(stripped) THEN CleanLoop(lines, i + 1, acc)
             ELSE CleanLoop(lines, i + 1, Append(acc, stripped))

\* cleaned_lines when the loop of clean_public_content ends
CleanedLinesOf(t) == CleanLoop(SplitLines(t), 1, <<>>)

\* rejoin and normalize spacing
RejoinLines(ls) == Strip(CollapseNewlines(Join(<<LF>>, ls)))

clean_public_content(t) == RejoinLines(CleanedLinesOf(t))

\* ------------------------------------------------------------------
\* Cards of the activity stream, as parse_ticket sees them
\* ------------------------------------------------------------------

Bullet == <<"U+2022">>

\* What parse_ticket reads of one div.sn-card-component:
\*   createdby      text of span.sn-card-component-createdby, None without one
\*   date_calendar  text of div.date-calendar, None without one
\*   label          card.get_text(" ", strip=True)
\*   records        "sn-card-component_records" in the card's classes
\*   card_text      card.get_text("\n", strip=True)
\*   summary        text of div.sn-card-component_summary, None without one
\*   textblock      text of div.sn-widget-textblock, None without one
PlainCard ==
    [createdby |-> None, date_calendar |-> None, label |-> <<>>, records |-> FALSE,
     card_text |-> <<>>, summary |-> None, textblock |-> None]

Card ==
    [id \in {"A1", "A2", "T1", "T2", "T3", "R0", "M1", "S1", "X1", "U1"} |->
      CASE id = "A1" ->
            [PlainCard EXCEPT !.createdby = <<"A","l">>, !.label = <<"A","l">>,
                              !.card_text = <<"A","l">>]
        [] id = "A2" ->  \* an author card that also has a date and the records class
            [PlainCard EXCEPT !.createdby = <<"B","o">>, !.date_calendar = <<"9","h">>,
                              !.label = <<"B","o"," ","9","h">>, !.records = TRUE,
                              !.card_text = <<"B","o",LF,"9","h">>]
        [] id = "T1" ->  \* label with the separator literal of normalize_type, and an empty text block
            [PlainCard EXCEPT !.date_calendar = <<"2","h">>,
                              !.label = InternalWorkNotes \o <<" ">> \o TypeSeparator \o <<" ","2","h">>,
                              !.card_text = InternalWorkNotes \o <<LF>> \o TypeSeparator \o <<LF,"2","h">>,
                              !.textblock = <<>>]
        [] id = "T2" ->  \* label with the bullet as a document read as UTF-8 has it
            [PlainCard EXCEPT !.date_calendar = <<"1","d">>,
                              !.label = AdditionalComments \o <<" ">> \o Bullet \o <<" ","1","d">>,
                              !.card_text = AdditionalComments \o <<LF>> \o Bullet \o <<LF,"1","d">>]
        [] id = "T3" ->  \* bare label, empty date
            [PlainCard EXCEPT !.date_calendar = <<>>, !.label = AdditionalComments,
                              !.card_text = AdditionalComments]
        [] id = "R0" ->  \* records card without text
            [PlainCard EXCEPT !.records = TRUE]
        [] id = "M1" ->  \* records card that also holds a summary
            [PlainCard EXCEPT !.records = TRUE, !.label = <<"F","x"," ","s","u">>,
                              !.card_text = <<"F","x",LF,"s","u">>,
                              !.summary = <<"s","u">>]
        [] id = "S1" ->  \* summary with a header line and a signature; also a text block
            [PlainCard EXCEPT !.summary = <<"R","e","p","l","y"," ","f","r","o","m",":"," ","B",LF,
                                            "h","i",LF,"-","-",LF,"s","g">>,
                              !.textblock = <<"h","i">>]
        [] id = "X1" ->  \* text block that is a signature only
            [PlainCard EXCEPT !.textblock = <<"-","-","s","g">>,
                              !.label = <<"-","-","s","g">>, !.card_text = <<"-","-","s","g">>]
        [] OTHER -> PlainCard ]  \* "U1": none of the marks

CardIds == DOMAIN Card

\* the stems of the files of samples/, sorted
HTML_FILES == << <<"I","N","C","1">>, <<"I","N","C","2">> >>

Internal == <<"i","n","t","e","r","n","a","l">>

Public == <<"p","u","b","l","i","c">>

BlankLine == <<LF, LF>>

\* ------------------------------------------------------------------
\* parse_ticket
\* ------------------------------------------------------------------

\* `if current_activity:` -- a dict of six keys is true, None is false
IsOpen == current_activity # <<>>

\* an activity is open: the loop runs and current_activity is one
Open == pc = "loop" /\ IsOpen

cur == current_activity[1]

\* the dict an author card opens
NewActivity(ticket_id, author) ==
    [ticket_id |-> ticket_id, author |-> author, type |-> None,
     timestamp |-> None, visibility |-> None, content |-> <<>>]

\* the current activity as an author card appends it to `activities`
CloseAtAuthor(a) == [a EXCEPT !.content = Join(BlankLine, a.content)]

\* as CloseAtEnd, cleaning whatever the visibility
CloseAtEndCleanAll(a) ==
    [a EXCEPT !.content = clean_public_content(Join(BlankLine, a.content))]

\* the current activity as the end of the loop appends it to `activities`
CloseAtEnd(a) ==
    LET content == Join(BlankLine, a.content)
    IN  [a EXCEPT !.content =
            IF a.visibility = Public THEN clean_public_content(content) ELSE content]

\* as SetType, with the visibility decided on the raw label
SetTypeRawLabel(a, c) ==
    [a EXCEPT !.type = normalize_type(c.label),
              !.timestamp = c.date_calendar,
              !.visibility = IF c.label = InternalWorkNotes THEN Internal ELSE Public]

\* as SetType, keeping a type that is already set
SetTypeFirstWins(a, c) ==
    IF a.type # None THEN a
    ELSE [a EXCEPT !.type = normalize_type(c.label),
                   !.timestamp = c.date_calendar,
                   !.visibility = IF normalize_type(c.label) = InternalWorkNotes
                                  THEN Internal ELSE Public]

\* as SetType, leaving the three fields absent for a type that is not a KB type
SetTypeKbOnly(a, c) ==
    IF normalize_type(c.label) \notin KB_TYPES
    THEN [a EXCEPT !.type = None, !.timestamp = None, !.visibility = None]
    ELSE [a EXCEPT !.type = normalize_type(c.label),
                   !.timestamp = c.date_calendar,
                   !.visibility = IF normalize_type(c.label) = InternalWorkNotes
                                  THEN Internal ELSE Public]

\* the three assignments of a type + timestamp card
SetType(a, c) ==
    LET activity_type == normalize_type(c.label)
    IN  [a EXCEPT !.type = activity_type,
                  !.timestamp = c.date_calendar,
                  !.visibility =
                      IF activity_type = InternalWorkNotes THEN Internal ELSE Public]

\* as KbWorthy, without the strip
KbWorthyNoStrip(a) == a.type \in KB_TYPES /\ a.content # <<>>

\* a["type"] in KB_TYPES and a["content"].strip()
KbWorthy(a) == a.type \in KB_TYPES /\ Strip(a.content) # <<>>

FilterKb(acts) == SelectSeq(acts, KbWorthy)

\* ticket_id = html_file.stem
ticket_id == HTML_FILES[html_file]

\* all_kb_entries = [], and the first call parse_ticket(HTML_FILES[0])
Init ==
    /\ pc = "locate"
    /\ cards = <<>>
    /\ current_activity = <<>>
    /\ activities = <<>>
    /\ closed_blocks = <<>>
    /\ kb_entries = <<>>
    /\ text = <<>>
    /\ cleaned_lines = <<>>
    /\ cleaned = <<>>
    /\ html_file = 1
    /\ all_kb_entries = <<>>
    /\ returned = <<>>

cleaner_vars == <<text, cleaned_lines, cleaned>>

batch_vars == <<html_file, all_kb_entries, returned>>

\* no div.sn-stream holds a card: return []
NoActivityStream ==
    /\ pc = "locate"
    /\ pc' = "done"
    /\ kb_entries' = <<>>
    /\ cards' = <<>>
    /\ UNCHANGED <<current_activity, activities, closed_blocks, cleaner_vars, batch_vars>>

\* as FoundActivityStream, with `activities` and `current_activity` left as the
\* call before left them
FoundActivityStreamKeepsState ==
    /\ pc = "locate"
    /\ pc' = "loop"
    /\ cards' = <<>>
    /\ UNCHANGED <<activities, current_activity, closed_blocks, kb_entries,
                   cleaner_vars, batch_vars>>

\* a stream with at least one card is found; activities = [], current_activity = None
FoundActivityStream ==
    /\ pc = "locate"
    /\ pc' = "loop"
    /\ activities' = <<>>
    /\ current_activity' = <<>>
    /\ cards' = <<>>
    /\ closed_blocks' = <<>>
    /\ UNCHANGED <<kb_entries, cleaner_vars, batch_vars>>

\* the loop takes its next card
Take(id) ==
    /\ pc = "loop"
    /\ cards' = Append(cards, id)
    /\ UNCHANGED <<pc, kb_entries, cleaner_vars, batch_vars>>

\* as AuthorCard, with the activity put in `activities` when it is opened too
AuthorCardAppendsAtOpen(id) ==
    /\ Take(id)
    /\ Card[id].createdby # None
    /\ IF IsOpen
       THEN /\ activities' = Append(Append(activities, CloseAtAuthor(cur)),
                                     NewActivity(ticket_id, Card[id].createdby))
            /\ closed_blocks' = Append(Append(closed_blocks, cur.content), <<>>)
       ELSE /\ activities' = Append(activities,
                                     NewActivity(ticket_id, Card[id].createdby))
            /\ closed_blocks' = Append(closed_blocks, <<>>)
    /\ current_activity' = <<NewActivity(ticket_id, Card[id].createdby)>>

AuthorCard(id) ==
    /\ Take(id)
    /\ Card[id].createdby # None
    /\ IF IsOpen
       THEN /\ activities' = Append(activities, CloseAtAuthor(cur))
            /\ closed_blocks' = Append(closed_blocks, cur.content)
       ELSE UNCHANGED <<activities, closed_blocks>>
    /\ current_activity' = <<NewActivity(ticket_id, Card[id].createdby)>>

\* as TypeTimestampCard, going on to the content branches after the assignments
TypeTimestampCardFallsThrough(id) ==
    /\ Take(id)
    /\ Card[id].createdby = None
    /\ Card[id].date_calendar # None /\ IsOpen
    /\ current_activity' =
          <<[SetType(cur, Card[id]) EXCEPT !.content =
                IF Card[id].records THEN Append(cur.content, Card[id].card_text)
                ELSE IF Card[id].summary # None THEN Append(cur.content, Card[id].summary)
                ELSE IF Card[id].textblock # None
                     THEN Append(cur.content, Card[id].textblock)
                ELSE cur.content]>>
    /\ UNCHANGED <<activities, closed_blocks>>

TypeTimestampCard(id) ==
    /\ Take(id)
    /\ Card[id].createdby = None
    /\ Card[id].date_calendar # None /\ IsOpen
    /\ current_activity' = <<SetType(cur, Card[id])>>
    /\ UNCHANGED <<activities, closed_blocks>>

\* a card that is neither of the two above
IsContentCard(id) ==
    /\ Card[id].createdby = None
    /\ ~(Card[id].date_calendar # None /\ IsOpen)

\* as CardWithoutActivity, opening an activity without author for the card
CardWithoutActivityOpens(id) ==
    /\ Take(id)
    /\ IsContentCard(id)
    /\ ~IsOpen
    /\ current_activity' = <<NewActivity(ticket_id, <<>>)>>
    /\ UNCHANGED <<activities, closed_blocks>>

\* `if not current_activity: continue`
CardWithoutActivity(id) ==
    /\ Take(id)
    /\ IsContentCard(id)
    /\ ~IsOpen
    /\ UNCHANGED <<current_activity, activities, closed_blocks>>

\* as AppendBlock, putting the block first
AppendBlockFirst(block) ==
    /\ current_activity' = <<[cur EXCEPT !.content = <<block>> \o cur.content]>>
    /\ UNCHANGED <<activities, closed_blocks>>

\* current_activity["content"].append(block)
AppendBlock(block) ==
    /\ current_activity' = <<[cur EXCEPT !.content = Append(cur.content, block)]>>
    /\ UNCHANGED <<activities, closed_blocks>>

RecordsCard(id) ==
    /\ Take(id)
    /\ IsContentCard(id) /\ IsOpen
    /\ Card[id].records
    /\ AppendBlock(Card[id].card_text)

\* as SummaryCard, tried before the records class
SummaryCardBeforeRecords(id) ==
    /\ Take(id)
    /\ IsContentCard(id) /\ IsOpen
    /\ Card[id].summary # None
    /\ AppendBlock(Card[id].summary)

SummaryCard(id) ==
    /\ Take(id)
    /\ IsContentCard(id) /\ IsOpen
    /\ ~Card[id].records
    /\ Card[id].summary # None
    /\ AppendBlock(Card[id].summary)

RichTextCard(id) ==
    /\ Take(id)
    /\ IsContentCard(id) /\ IsOpen
    /\ ~Card[id].records
    /\ Card[id].summary = None
    /\ Card[id].textblock # None
    /\ AppendBlock(Card[id].textblock)

\* no branch of the loop body takes the card
OtherCard(id) ==
    /\ Take(id)
    /\ IsContentCard(id) /\ IsOpen
    /\ ~Card[id].records
    /\ Card[id].summary = None
    /\ Card[id].textblock = None
    /\ UNCHANGED <<current_activity, activities, closed_blocks>>

\* as EndOfCards, appending the final activity only when it has a type
EndOfCardsTypedOnly ==
    /\ pc = "loop"
    /\ Len(cards) >= 1
    /\ pc' = "filter"
    /\ IF IsOpen /\ cur.type # None
       THEN /\ activities' = Append(activities, CloseAtEnd(cur))
            /\ closed_blocks' = Append(closed_blocks, cur.content)
            /\ current_activity' = <<CloseAtEnd(cur)>>
       ELSE UNCHANGED <<activities, closed_blocks, current_activity>>
    /\ UNCHANGED <<cards, kb_entries, cleaner_vars, batch_vars>>

\* as EndOfCards, for a loop that fails when no activity is open
EndOfCardsNeedsActivity ==
    /\ pc = "loop"
    /\ Len(cards) >= 1
    /\ IsOpen
    /\ pc' = "filter"
    /\ activities' = Append(activities, CloseAtEnd(cur))
    /\ closed_blocks' = Append(closed_blocks, cur.content)
    /\ current_activity' = <<CloseAtEnd(cur)>>
    /\ UNCHANGED <<cards, kb_entries, cleaner_vars, batch_vars>>

\* the loop is over its cards (there is at least one): append the final activity
EndOfCards ==
    /\ pc = "loop"
    /\ Len(cards) >= 1
    /\ pc' = "filter"
    /\ IF IsOpen
       THEN /\ activities' = Append(activities, CloseAtEnd(cur))
            /\ closed_blocks' = Append(closed_blocks, cur.content)
            /\ current_activity' = <<CloseAtEnd(cur)>>  \* the same dict, now in the list
       ELSE UNCHANGED <<activities, closed_blocks, current_activity>>
    /\ UNCHANGED <<cards, kb_entries, cleaner_vars, batch_vars>>

\* filter to KB-worthy entries and return
ReturnKbEntries ==
    /\ pc = "filter"
    /\ pc' = "done"
    /\ kb_entries' = FilterKb(activities)
    /\ UNCHANGED <<cards, current_activity, activities, closed_blocks, cleaner_vars,
                   batch_vars>>

\* one call of parse_ticket, on documents of up to MaxCards cards
Next ==
    \/ NoActivityStream
    \/ FoundActivityStream
    \/ \E id \in CardIds : Len(cards) < MaxCards /\ AuthorCard(id)
    \/ \E id \in CardIds : Len(cards) < MaxCards /\ TypeTimestampCard(id)
    \/ \E id \in CardIds : Len(cards) < MaxCards /\ CardWithoutActivity(id)
    \/ \E id \in CardIds : Len(cards) < MaxCards /\ RecordsCard(id)
    \/ \E id \in CardIds : Len(cards) < MaxCards /\ SummaryCard(id)
    \/ \E id \in CardIds : Len(cards) < MaxCards /\ RichTextCard(id)
    \/ \E id \in CardIds : Len(cards) < MaxCards /\ OtherCard(id)
    \/ EndOfCards
    \/ ReturnKbEntries

Spec == Init /\ [][Next]_vars

\* ------------------------------------------------------------------
\* The batch loop over HTML_FILES
\* ------------------------------------------------------------------

\* cards of the documents of the batch: an author card, a type + timestamp card
\* of a KB type and a records card
BatchCardIds == {"A1", "T3", "M1"}

\* as ExtendEntries, putting the entries of the call first
ExtendEntriesFirst ==
    /\ pc = "done"
    /\ all_kb_entries' = kb_entries \o all_kb_entries
    /\ returned' = Append(returned, kb_entries)
    /\ IF html_file < Len(HTML_FILES)
       THEN html_file' = html_file + 1 /\ pc' = "locate"
       ELSE pc' = "summary" /\ UNCHANGED html_file
    /\ UNCHANGED <<cards, current_activity, activities, closed_blocks, kb_entries,
                   cleaner_vars>>

\* entries = parse_ticket(html_file) has returned: all_kb_entries.extend(entries),
\* then the call for the next file, or the end of the loop
ExtendEntries ==
    /\ pc = "done"
    /\ all_kb_entries' = all_kb_entries \o kb_entries
    /\ returned' = Append(returned, kb_entries)
    /\ IF html_file < Len(HTML_FILES)
       THEN html_file' = html_file + 1 /\ pc' = "locate"
       ELSE pc' = "summary" /\ UNCHANGED html_file
    /\ UNCHANGED <<cards, current_activity, activities, closed_blocks, kb_entries,
                   cleaner_vars>>

\* the batch loop, on documents of up to MaxBatchCards cards of BatchCardIds
NextBatch ==
    \/ NoActivityStream
    \/ FoundActivityStream
    \/ \E id \in BatchCardIds : Len(cards) < MaxBatchCards /\ AuthorCard(id)
    \/ \E id \in BatchCardIds : Len(cards) < MaxBatchCards /\ TypeTimestampCard(id)
    \/ \E id \in BatchCardIds : Len(cards) < MaxBatchCards /\ CardWithoutActivity(id)
    \/ \E id \in BatchCardIds : Len(cards) < MaxBatchCards /\ RecordsCard(id)
    \/ EndOfCards
    \/ ReturnKbEntries
    \/ ExtendEntries

SpecBatch == Init /\ [][NextBatch]_vars

\* ------------------------------------------------------------------
\* The KB filter on its own
\* ------------------------------------------------------------------

MaxActivities == 3

\* types and contents of the activities the segmenter appends
TypePool ==
    {None, InternalWorkNotes, AdditionalComments,
     AdditionalComments \o <<" ">> \o Bullet \o <<" ","1","d">>}

ContentPool == {<<>>, BlankLine, <<"F","x">>}

FinalizedPool ==
    {[ticket_id |-> HTML_FILES[1], author |-> <<"A","l">>, type |-> t,
      timestamp |-> IF t = None THEN None ELSE <<"2","h">>,
      visibility |-> IF t = None THEN None
                     ELSE IF t = InternalWorkNotes THEN Internal ELSE Public,
      content |-> c] : t \in TypePool, c \in ContentPool}

\* parse_ticket at its filter, `activities` being any list of such activities
InitFilter ==
    /\ pc = "filter"
    /\ activities \in UNION {[1..n -> FinalizedPool] : n \in 0..MaxActivities}
    /\ cards = <<>>
    /\ current_activity = <<>>
    /\ closed_blocks = <<>>
    /\ kb_entries = <<>>
    /\ text = <<>>
    /\ cleaned_lines = <<>>
    /\ cleaned = <<>>
    /\ html_file = 1
    /\ all_kb_entries = <<>>
    /\ returned = <<>>

NextFilter == ReturnKbEntries

SpecFilter == InitFilter /\ [][NextFilter]_vars

\* ------------------------------------------------------------------
\* clean_public_content on its own
\* ------------------------------------------------------------------

\* lines an argument of clean_public_content is made of
LinePool == {
    <<>>,                                                                \* blank
    <<" ","a"," ">>,                                                     \* ordinary, to be trimmed
    <<"a"," ","r","e","p","l","y"," ","f","r","o","m",":">>,             \* header words, not at the start
    <<" ","R","e","p","l","y"," ","F","r","o","m",":"," ","b">>,         \* header
    <<"r","e","c","e","i","v","e","d"," ","f","r","o","m",":","-","-">>, \* header with a marker
    <<"a"," ","C","a","m","p","u","s"," ","b","o","x">> }                \* marker inside the line

LineSeqs == UNION {[1..n -> LinePool] : n \in 0..MaxLines}

InitClean ==
    /\ pc = "clean_call"
    /\ text \in {Join(<<LF>>, ls) : ls \in LineSeqs}
    /\ cleaned_lines = <<>>
    /\ cleaned = <<>>
    /\ cards = <<>>
    /\ current_activity = <<>>
    /\ activities = <<>>
    /\ closed_blocks = <<>>
    /\ kb_entries = <<>>
    /\ html_file = 1
    /\ all_kb_entries = <<>>
    /\ returned = <<>>

\* one call of clean_public_content(text)
CleanText ==
    /\ pc = "clean_call"
    /\ pc' = "clean_return"
    /\ cleaned_lines' = CleanedLinesOf(text)
    /\ cleaned' = clean_public_content(text)
    /\ UNCHANGED <<text, cards, current_activity, activities, closed_blocks, kb_entries,
                   batch_vars>>

NextClean == CleanText

SpecClean == InitClean /\ [][NextClean]_vars

\* ------------------------------------------------------------------
\* Properties of clean_public_content
\* ------------------------------------------------------------------

\* the trimmed line contains a boilerplate marker as a substring, whatever the case
IsBoilerplateLine(l) ==
    LET low == Lower(Strip(l))
    IN  \E m \in 1..Len(STOP_MARKERS) : Contains(low, Lower(STOP_MARKERS[m]))

\* the trimmed line starts with "reply from:" or "received from:", whatever the case
IsHeaderLine(l) ==
    LET low == Lower(Strip(l))
    IN  \E p \in 1..Len(HEADER_PATTERNS) : OccursAt(low, HEADER_PATTERNS[p], 1)

NotHeaderLine(l) == ~IsHeaderLine(l)

\* index of the first boilerplate line, Len(lines) + 1 when there is none
FirstBoilerplate(lines) ==
    IF \E i \in 1..Len(lines) : IsBoilerplateLine(lines[i])
    THEN CHOOSE i \in 1..Len(lines) :
            /\ IsBoilerplateLine(lines[i])
            /\ \A j \in 1..(i - 1) : ~IsBoilerplateLine(lines[j])
    ELSE Len(lines) + 1

InputLines == SplitLines(text)

\* C9: the first line that contains a boilerplate marker, and every line after
\* it, is discarded: the result is that of the lines before it alone, and every
\* kept line is one of those.
C9_StopAtBoilerplate ==
    pc = "clean_return" =>
        LET k == FirstBoilerplate(InputLines)
        IN  k <= Len(InputLines) =>
              /\ cleaned = clean_public_content(Join(<<LF>>, SubSeq(InputLines, 1, k - 1)))
              /\ Len(cleaned_lines) <= k - 1
              /\ \A j \in 1..Len(cleaned_lines) :
                    \E i \in 1..(k - 1) : cleaned_lines[j] = Strip(InputLines[i])

\* a marker inside a line (not the whole line) stops the cleaner, lines were
\* kept before it, and ordinary lines follow it
C9_Witness ==
    /\ pc = "clean_return"
    /\ LET k == FirstBoilerplate(InputLines)
       IN  /\ 1 < k /\ k < Len(InputLines)
           /\ \A m \in 1..Len(STOP_MARKERS) :
                 Lower(Strip(InputLines[k])) # Lower(STOP_MARKERS[m])
           /\ ~IsBoilerplateLine(InputLines[k + 1])
           /\ ~IsHeaderLine(InputLines[k + 1])
           /\ Strip(InputLines[k + 1]) # <<>>
           /\ cleaned # <<>>

NotBlank(l) == l # <<>>

\* C10: the kept lines are exactly the lines before the first boilerplate line
\* that are no header lines, trimmed and in their order: a header line is
\* dropped alone.  The lines of the result that are not blank are those of them
\* that are not blank, in the same order.
C10_HeaderDroppedAlone ==
    pc = "clean_return" =>
        LET k == FirstBoilerplate(InputLines)
            before == [i \in 1..(k - 1) |-> Strip(InputLines[i])]
            kept == SelectSeq(before, NotHeaderLine)
        IN  /\ cleaned_lines = kept
            /\ SelectSeq(SplitLines(cleaned), NotBlank) = SelectSeq(kept, NotBlank)

\* a header line with kept lines before and after it, all before any boilerplate
C10_Witness ==
    /\ pc = "clean_return"
    /\ LET k == FirstBoilerplate(InputLines)
       IN  \E j \in 2..(k - 2) :
              /\ IsHeaderLine(InputLines[j])
              /\ ~IsHeaderLine(InputLines[j - 1]) /\ Strip(InputLines[j - 1]) # <<>>
              /\ ~IsHeaderLine(InputLines[j + 1]) /\ Strip(InputLines[j + 1]) # <<>>
              /\ Len(SplitLines(cleaned)) >= 2

\* C11: cleaning a cleaned text changes nothing: clean(clean(x)) = clean(x).
C11_CleanIdempotent ==
    pc = "clean_return" => clean_public_content(cleaned) = cleaned

\* a text the cleaner changed by dropping a header line, by trimming and by
\* stopping at a boilerplate line, with two lines or more left
C11_Witness ==
    /\ pc = "clean_return"
    /\ cleaned # text
    /\ Len(SplitLines(cleaned)) >= 2
    /\ LET k == FirstBoilerplate(InputLines)
       IN  /\ k <= Len(InputLines)
           /\ \E j \in 1..(k - 1) : IsHeaderLine(InputLines[j])
           /\ \E j \in 1..(k - 1) : Strip(InputLines[j]) # InputLines[j]

\* the length of the run of blank lines that starts at index i of ls
RECURSIVE BlankRun(_, _)
BlankRun(ls, i) ==
    IF i <= Len(ls) /\ ls[i] = <<>> THEN 1 + BlankRun(ls, i + 1) ELSE 0

\* ls with every run of n blank lines or more replaced by one blank line
RECURSIVE CollapseBlankRuns(_, _, _)
CollapseBlankRuns(ls, n, i) ==
    IF i > Len(ls) THEN <<>>
    ELSE IF BlankRun(ls, i) >= n
         THEN << <<>> >> \o CollapseBlankRuns(ls, n, i + BlankRun(ls, i))
    ELSE IF BlankRun(ls, i) > 0
         THEN SubSeq(ls, i, i + BlankRun(ls, i) - 1)
              \o CollapseBlankRuns(ls, n, i + BlankRun(ls, i))
    ELSE <<ls[i]>> \o CollapseBlankRuns(ls, n, i + 1)

\* ls without its leading and its trailing blank lines
TrimBlankEnds(ls) ==
    LET kept == {i \in 1..Len(ls) : ls[i] # <<>>}
    IN  IF kept = {} THEN <<>>
        ELSE SubSeq(ls, CHOOSE i \in kept : \A j \in kept : i <= j,
                        CHOOSE i \in kept : \A j \in kept : j <= i)

\* the kept lines, rejoined, with the runs of n blank lines or more between
\* them collapsed to one blank line
RejoinedCollapsingFrom(n) ==
    Join(<<LF>>, CollapseBlankRuns(TrimBlankEnds(cleaned_lines), n, 1))

\* C12 as stated: a run of blank lines between kept lines becomes one blank
\* line only when it has three blank lines or more; a run of one or two is
\* left as it is.
C12_CollapseFromThreeBlankLines ==
    pc = "clean_return" => cleaned = RejoinedCollapsingFrom(3)

\* C12 as amended: a run of blank lines between kept lines becomes one blank
\* line when it has two blank lines or more (three line breaks or more in a
\* row); a single blank line is left as it is.
C12_CollapseFromTwoBlankLines ==
    pc = "clean_return" => cleaned = RejoinedCollapsingFrom(2)

\* exactly two blank lines between two kept lines, one blank line in the result
C12_Witness ==
    /\ pc = "clean_return"
    /\ \E i \in 1..(Len(cleaned_lines) - 3) :
          /\ cleaned_lines[i] # <<>>
          /\ cleaned_lines[i + 1] = <<>> /\ cleaned_lines[i + 2] = <<>>
          /\ cleaned_lines[i + 3] # <<>>
          /\ cleaned = cleaned_lines[i] \o <<LF, LF>> \o cleaned_lines[i + 3]

\* ------------------------------------------------------------------
\* Properties of the segmenter and of the filter
\* ------------------------------------------------------------------

IsAuthorCard(id) == Card[id].createdby # None

IsTypeCard(id) == Card[id].createdby = None /\ Card[id].date_calendar # None

HasContentMark(id) ==
    Card[id].records \/ Card[id].summary # None \/ Card[id].textblock # None

\* positions of the author cards among the cards consumed
AuthorPositions == {i \in 1..Len(cards) : IsAuthorCard(cards[i])}

\* the k-th smallest element of the set S of numbers
NthOf(S, k) == CHOOSE i \in S : Cardinality({j \in S : j < i}) = k - 1

\* the positions after the k-th author card and before the next one
SegmentOf(k) ==
    LET from == NthOf(AuthorPositions, k) + 1
        to   == IF k < Cardinality(AuthorPositions)
                THEN NthOf(AuthorPositions, k + 1) - 1 ELSE Len(cards)
    IN  from..to

TypeCardsOf(k) == {i \in SegmentOf(k) : IsTypeCard(cards[i])}

Largest(S) == CHOOSE i \in S : \A j \in S : j <= i

Smallest(S) == CHOOSE i \in S : \A j \in S : i <= j

\* C1: every public activity of the output has content
\* clean(blocks joined with a blank line), however it was finalized.
C1_PublicContentCleaned ==
    \A i \in 1..Len(activities) :
        activities[i].visibility = Public =>
            activities[i].content =
                clean_public_content(Join(BlankLine, closed_blocks[i]))

\* the label cut at the first bullet and trimmed
BareTypeName(label) == Strip(SplitFirst(label, Bullet))

\* C2: after a type-timestamp marker on an open activity, the type is the
\* label cut at the first "•" and trimmed (the trimmed label without one).
C2_TypeIsBareName ==
    (Open /\ cards # <<>> /\ IsTypeCard(cards[Len(cards)])) =>
        cur.type = BareTypeName(Card[cards[Len(cards)]].label)

VisibilityDerived(a) ==
    /\ (a.visibility = Internal) <=> (a.type = InternalWorkNotes)
    /\ (a.visibility = Public) <=> (a.type # None /\ a.type # InternalWorkNotes)
    /\ (a.visibility = None) <=> (a.type = None)
    /\ (a.timestamp = None) <=> (a.type = None)

\* C3: for the open activity and every emitted one, visibility is internal iff
\* type is "Internal Work notes", public iff type is another value, unknown iff
\* type is absent; timestamp is absent iff type is absent.
C3_VisibilityDerived ==
    /\ \A i \in 1..Len(activities) : VisibilityDerived(activities[i])
    /\ IsOpen => VisibilityDerived(cur)

\* an internal activity and a public one with an empty timestamp emitted, the
\* last by the end of the cards
C3_Witness ==
    /\ pc = "filter"
    /\ \E i \in 1..Len(activities) : activities[i].visibility = Internal
    /\ \E i \in 1..Len(activities) :
          activities[i].visibility = Public /\ activities[i].timestamp = <<>>

\* the type is one of the two KB-worthy labels
IsKbType(t) == t = InternalWorkNotes \/ t = AdditionalComments

\* the content has a character that is not white space
HasVisibleChar(c) == \E j \in 1..Len(c) : c[j] \notin Whitespace

KeptPositions ==
    {i \in 1..Len(activities) :
        IsKbType(activities[i].type) /\ HasVisibleChar(activities[i].content)}

\* C4: the filter returns exactly the activities whose type is one of the two
\* KB-worthy labels and whose trimmed content is not empty, in their order and
\* unchanged.
C4_FilterExact ==
    pc = "done" =>
        /\ Len(kb_entries) = Cardinality(KeptPositions)
        /\ \A k \in 1..Len(kb_entries) :
              kb_entries[k] = activities[NthOf(KeptPositions, k)]

\* two different entries kept around an activity without type, and an activity
\* of a KB-worthy type dropped for its content of white space only
C4_Witness ==
    /\ pc = "done"
    /\ Len(activities) = 3 /\ Len(kb_entries) = 2
    /\ kb_entries[1] # kb_entries[2]
    /\ \/ activities[2].type = None
       \/ IsKbType(activities[2].type) /\ activities[2].content = BlankLine

\* C5: once the cards are over, the output has one activity per author card,
\* in their order; when every card is an author card, each activity has empty
\* content and no type or timestamp.
C5_OnePerAuthorMarker ==
    pc \in {"filter", "done"} =>
        /\ Len(activities) = Cardinality(AuthorPositions)
        /\ \A k \in 1..Len(activities) :
              activities[k].author = Card[cards[NthOf(AuthorPositions, k)]].createdby
        /\ AuthorPositions = 1..Len(cards) =>
              \A k \in 1..Len(activities) :
                  /\ activities[k].content = <<>>
                  /\ activities[k].type = None
                  /\ activities[k].timestamp = None

\* three or more author cards and nothing else, of two authors
C5_Witness ==
    /\ pc = "done"
    /\ Len(cards) >= 3
    /\ AuthorPositions = 1..Len(cards)
    /\ Len(activities) = Len(cards)
    /\ \E i, j \in 1..Len(activities) : activities[i].author # activities[j].author

\* C6: an activity finalized after two or more type-timestamp cards has the
\* type, timestamp and visibility of the last of them.
C6_LastTypeWins ==
    \A k \in 1..Len(activities) :
        Cardinality(TypeCardsOf(k)) >= 2 =>
            LET c == Card[cards[Largest(TypeCardsOf(k))]]
            IN  /\ activities[k].type = normalize_type(c.label)
                /\ activities[k].timestamp = c.date_calendar
                /\ activities[k].visibility =
                      IF normalize_type(c.label) = InternalWorkNotes
                      THEN Internal ELSE Public

\* an emitted activity whose first and last type-timestamp cards differ in
\* type, timestamp and visibility
C6_Witness ==
    \E k \in 1..Len(activities) :
        /\ Cardinality(TypeCardsOf(k)) >= 2
        /\ LET first == Card[cards[Smallest(TypeCardsOf(k))]]
               last  == Card[cards[Largest(TypeCardsOf(k))]]
           IN  /\ normalize_type(first.label) # normalize_type(last.label)
               /\ first.date_calendar # last.date_calendar
               /\ (normalize_type(first.label) = InternalWorkNotes)
                    # (normalize_type(last.label) = InternalWorkNotes)

\* C7: as long as no author card was consumed, nothing is open and nothing is
\* emitted, whatever the cards were; without any author card the result is empty.
C7_NothingBeforeFirstAuthor ==
    AuthorPositions = {} =>
        /\ current_activity = <<>>
        /\ activities = <<>>
        /\ kb_entries = <<>>

\* a run over a type-timestamp card, a card with content and a card with no
\* mark at all, and no author card
C7_Witness ==
    /\ pc = "done"
    /\ AuthorPositions = {}
    /\ \E i \in 1..Len(cards) : IsTypeCard(cards[i])
    /\ \E i \in 1..Len(cards) : ~IsTypeCard(cards[i]) /\ HasContentMark(cards[i])
    /\ \E i \in 1..Len(cards) : ~IsTypeCard(cards[i]) /\ ~HasContentMark(cards[i])

\* C8: every internal activity of the output has as content its blocks joined
\* with a blank line, uncleaned.
C8_InternalContentNotCleaned ==
    \A i \in 1..Len(activities) :
        activities[i].visibility = Internal =>
            activities[i].content = Join(BlankLine, closed_blocks[i])

\* an internal activity, finalized by the end of the cards, whose content the
\* cleaner would change, and which is returned
C8_Witness ==
    /\ pc = "done"
    /\ activities # <<>>
    /\ ~IsAuthorCard(cards[Len(cards)])
    /\ LET a == activities[Len(activities)]
       IN  /\ a.visibility = Internal
           /\ clean_public_content(a.content) # a.content
           /\ \E k \in 1..Len(kb_entries) : kb_entries[k] = a

\* a card that is neither an author card nor a type-timestamp card and has the
\* mark of one of the three kinds of content
IsContentFragment(id) == ~IsAuthorCard(id) /\ ~IsTypeCard(id) /\ HasContentMark(id)

\* the text of a content fragment: of the records card, else of its summary,
\* else of its text block
BlockOf(id) ==
    IF Card[id].records THEN Card[id].card_text
    ELSE IF Card[id].summary # None THEN Card[id].summary
    ELSE Card[id].textblock

\* the blocks of the content fragments at the positions from..to, in order
RECURSIVE BlocksBetween(_, _)
BlocksBetween(from, to) ==
    IF from > to THEN <<>>
    ELSE IF IsContentFragment(cards[from])
         THEN <<BlockOf(cards[from])>> \o BlocksBetween(from + 1, to)
    ELSE BlocksBetween(from + 1, to)

\* the blocks of the content fragments after the k-th author card and before
\* the next one
ExpectedBlocks(k) ==
    BlocksBetween(NthOf(AuthorPositions, k) + 1,
                  IF k < Cardinality(AuthorPositions)
                  THEN NthOf(AuthorPositions, k + 1) - 1 ELSE Len(cards))

\* C13: the blocks of every activity, emitted or open, are those of the content
\* fragments between its author card and the next one, one per fragment and in
\* order; the content of an emitted activity is these blocks joined with a
\* blank line (as they are, or cleaned when the activity is public).
C13_BlocksOfOwnSegment ==
    /\ \A k \in 1..Len(activities) :
          /\ closed_blocks[k] = ExpectedBlocks(k)
          /\ \/ activities[k].content = Join(BlankLine, ExpectedBlocks(k))
             \/ /\ activities[k].visibility = Public
                /\ activities[k].content =
                      clean_public_content(Join(BlankLine, ExpectedBlocks(k)))
    /\ Open => cur.content = ExpectedBlocks(Len(activities) + 1)

\* an emitted activity of two different blocks, followed by an open activity
\* that has none
C13_Witness ==
    /\ Open /\ cur.content = <<>>
    /\ \E k \in 1..Len(activities) :
          /\ Len(closed_blocks[k]) = 2
          /\ closed_blocks[k][1] # closed_blocks[k][2]

\* ------------------------------------------------------------------
\* Properties of the batch loop
\* ------------------------------------------------------------------

\* the lists ls[i], ls[i+1], ... one after the other
RECURSIVE FlattenFrom(_, _)
FlattenFrom(ls, i) ==
    IF i > Len(ls) THEN <<>> ELSE ls[i] \o FlattenFrom(ls, i + 1)

\* C14: the aggregated list is the lists the calls returned, one after the
\* other in the order of the files, nothing removed or reordered; the entries
\* of the i-th call are of the i-th file; and the list a call returns has the
\* kept activities in the order in which they were closed.
C14_AggregateInDocumentOrder ==
    /\ all_kb_entries = FlattenFrom(returned, 1)
    /\ Len(returned) = IF pc = "summary" THEN Len(HTML_FILES) ELSE html_file - 1
    /\ \A i \in 1..Len(returned) : \A j \in 1..Len(returned[i]) :
          returned[i][j].ticket_id = HTML_FILES[i]
    /\ (pc = "done" /\ cards # <<>>) =>
          /\ Len(kb_entries) = Cardinality(KeptPositions)
          /\ \A k \in 1..Len(kb_entries) :
                kb_entries[k] = activities[NthOf(KeptPositions, k)]

\* the loop is over, the first file gave two different entries and the second
\* file one
C14_Witness ==
    /\ pc = "summary"
    /\ Len(returned[1]) = 2 /\ returned[1][1] # returned[1][2]
    /\ Len(returned[2]) = 1
    /\ Len(all_kb_entries) = 3

\* ------------------------------------------------------------------
\* Properties of the whole of parse_ticket
\* ------------------------------------------------------------------

\* the loop body has a branch for the card
LoopBody(id) ==
    \/ AuthorCard(id)
    \/ TypeTimestampCard(id)
    \/ CardWithoutActivity(id)
    \/ RecordsCard(id)
    \/ SummaryCard(id)
    \/ RichTextCard(id)
    \/ OtherCard(id)

IsString(v) == \A j \in 1..Len(v) : v[j] \in STRING

\* an entry of the returned list: the six keys, the content a string
IsEntry(a) ==
    /\ DOMAIN a = {"ticket_id", "author", "type", "timestamp", "visibility", "content"}
    /\ IsString(a.content)

\* the first line of the text has a boilerplate marker
FirstLineIsBoilerplate(t) ==
    SplitLines(t) # <<>> /\ IsBoilerplateLine(SplitLines(t)[1])

\* C15: parse_ticket returns a list of entries, the empty list when there is
\* no card; before its return it has a step to take: at the start, in the loop
\* for whatever card comes next, with or without an open activity, at the end
\* of the cards with or without an open activity, and at the filter (the steps
\* of the loop are tried where at most one card has been consumed, which decides
\* whether an activity is open); the public activity closed at the end has
\* content "" when it has no blocks or when the first line of its joined blocks
\* has a boilerplate marker.
C15_PipelineTotal ==
    /\ pc \in {"locate", "loop", "filter", "done"}
    /\ pc = "locate" => ENABLED NoActivityStream /\ ENABLED FoundActivityStream
    /\ (pc = "loop" /\ Len(cards) <= 1) =>
          /\ \A id \in CardIds : ENABLED LoopBody(id)
          /\ cards # <<>> => ENABLED EndOfCards
    /\ pc = "filter" => ENABLED ReturnKbEntries
    /\ pc = "done" =>
          /\ \A k \in 1..Len(kb_entries) : IsEntry(kb_entries[k])
          /\ cards = <<>> => kb_entries = <<>>
    /\ (pc \in {"filter", "done"} /\ activities # <<>>) =>
          LET n      == Len(activities)
              joined == Join(BlankLine, closed_blocks[n])
          IN  (/\ activities[n].visibility = Public
               /\ joined = <<>> \/ FirstLineIsBoilerplate(joined))
              => activities[n].content = <<>>

\* parse_ticket has returned; the last activity is public, has a block, and was
\* cleaned to ""
C15_Witness ==
    /\ pc = "done"
    /\ activities # <<>>
    /\ activities[Len(activities)].visibility = Public
    /\ closed_blocks[Len(activities)] # <<>>
    /\ activities[Len(activities)].content = <<>>

\* the activities opened so far: one per author card consumed
Opened == Cardinality(AuthorPositions)

\* the open activity is not in `activities`, every other opened one is there once
EmittedCount == IF Open THEN Opened - 1 ELSE Opened

\* the fields an activity keeps when it is closed
SameButContent(a, b) ==
    /\ a.ticket_id = b.ticket_id /\ a.author = b.author /\ a.type = b.type
    /\ a.timestamp = b.timestamp /\ a.visibility = b.visibility

\* a step of parse_ticket leaves every activity of `activities` as it is, and
\* appends at most the activity that was open, which is then open no more
AppendsOnlyTheOpenOne ==
    /\ Len(activities') \in {Len(activities), Len(activities) + 1}
    /\ \A k \in 1..Len(activities) : activities'[k] = activities[k]
    /\ Len(activities') = Len(activities) + 1 =>
          /\ Open
          /\ SameButContent(activities'[Len(activities')], cur)
          /\ closed_blocks'[Len(activities')] = cur.content
          /\ pc' = "loop" => cur'.content = <<>> /\ cur'.type = None
    /\ Len(activities') = EmittedCount'
    /\ pc' = "done" => \A k \in 1..Len(kb_entries') :
                          \E i \in 1..Len(activities) : kb_entries'[k] = activities[i]

\* C16: every opened activity is appended exactly once, by the author card that
\* follows it or by the end of the loop: the list has one activity per author
\* card consumed, less the open one, which is not in it; an activity of the list
\* is never changed by a later step, and the entries returned are activities of
\* the list as they were appended.
C16_FinalizedExactlyOnce == [][AppendsOnlyTheOpenOne]_vars

\* parse_ticket has returned: two activities were opened and appended, the
\* first with a type by an author card, the last with a block by the end of the
\* loop
C16_Witness ==
    /\ pc = "done"
    /\ Len(activities) = 2
    /\ activities[1].type # None
    /\ closed_blocks[2] # <<>>

\* the step leaves the same activity open
StaysOpen == Open /\ Open' /\ Opened' = Opened

\* s is t, or t with elements appended
IsPrefix(s, t) == Len(s) <= Len(t) /\ SubSeq(t, 1, Len(s)) = s

\* C17: over a step that leaves the same activity open, its author and
\* ticket_id are unchanged, its blocks are those it had with at most one
\* appended, and none of type, timestamp and visibility goes from a value to
\* absent.
C17_OpenActivityMonotone ==
    [][StaysOpen =>
          /\ cur'.author = cur.author
          /\ cur'.ticket_id = cur.ticket_id
          /\ IsPrefix(cur.content, cur'.content)
          /\ Len(cur'.content) <= Len(cur.content) + 1
          /\ cur.type # None => cur'.type # None
          /\ cur.timestamp # None => cur'.timestamp # None
          /\ cur.visibility # None => cur'.visibility # None]_vars

\* an open activity that has had two type + timestamp cards and has a block
C17_Witness ==
    /\ Open
    /\ Cardinality(TypeCardsOf(Opened)) = 2
    /\ cur.content # <<>>
    /\ cur.type # None

\* how many of the three kinds of content the card has the mark of
ContentMarks(id) ==
    Cardinality({m \in {"records", "summary", "textblock"} :
                    \/ m = "records" /\ Card[id].records
                    \/ m = "summary" /\ Card[id].summary # None
                    \/ m = "textblock" /\ Card[id].textblock # None})

\* the step consumes a card, with an activity open, that is neither an author
\* card nor a type + timestamp card
TakesContentFragment ==
    /\ Open /\ Len(cards') = Len(cards) + 1
    /\ ~IsAuthorCard(cards'[Len(cards')])
    /\ ~IsTypeCard(cards'[Len(cards')])

\* C18: a card consumed as content with an activity open appends exactly one
\* block, the text of the records card if it has that class, else of its
\* summary, else of its text block, whatever other marks it has; a card with
\* none of the three marks appends nothing.
C18_OneBlockByPriority ==
    [][TakesContentFragment =>
          LET id == cards'[Len(cards')]
          IN  /\ ContentMarks(id) = 0 => cur'.content = cur.content
              /\ ContentMarks(id) >= 1 =>
                    cur'.content =
                        Append(cur.content,
                               IF Card[id].records THEN Card[id].card_text
                               ELSE IF Card[id].summary # None THEN Card[id].summary
                               ELSE Card[id].textblock)]_vars

\* two cards with two marks each gave one block each, a records card with a
\* summary and a summary card with a text block, and a card with no mark none
C18_Witness ==
    /\ Open /\ Len(cards) = 4
    /\ Len(cur.content) = 2
    /\ \E i, j \in 2..4 :
          /\ ContentMarks(cards[i]) = 2 /\ Card[cards[i]].records
          /\ ContentMarks(cards[j]) = 2 /\ ~Card[cards[j]].records
    /\ \E i \in 2..4 : ContentMarks(cards[i]) = 0 /\ ~IsTypeCard(cards[i])

\* the step consumes the card id
Consumes(id) ==
    pc = "loop" /\ Len(cards') = Len(cards) + 1 /\ cards'[Len(cards')] = id

\* C19: a card with an author, whatever its other marks, appends the open
\* activity, if any, with the type, timestamp and visibility it had and its own
\* blocks only, and opens an activity that has no type, timestamp or visibility
\* and no block; with an activity open, a card with a date-calendar and no
\* author, whatever its content marks, leaves the blocks and `activities` as
\* they are.
C19_MarkersBeforeContent ==
    [][\A id \in CardIds : Consumes(id) =>
          /\ IsAuthorCard(id) =>
                /\ Open'
                /\ cur' = [ticket_id |-> ticket_id, author |-> Card[id].createdby,
                           type |-> None, timestamp |-> None, visibility |-> None,
                           content |-> <<>>]
                /\ IsOpen =>
                      /\ Len(activities') = Len(activities) + 1
                      /\ SameButContent(activities'[Len(activities')], cur)
                      /\ activities'[Len(activities')].content =
                             Join(BlankLine, cur.content)
                /\ ~IsOpen => activities' = activities
          /\ (IsTypeCard(id) /\ IsOpen) =>
                /\ cur'.content = cur.content
                /\ cur'.author = cur.author
                /\ cur'.type # None
                /\ activities' = activities]_vars

\* the last card has a date-calendar and a content mark and set the type of the
\* activity that a card with an author, a date-calendar and a content mark
\* opened, closing another
C19_Witness ==
    /\ Open /\ Len(cards) >= 3
    /\ IsTypeCard(cards[Len(cards)]) /\ ContentMarks(cards[Len(cards)]) >= 1
    /\ IsAuthorCard(cards[Len(cards) - 1])
    /\ Card[cards[Len(cards) - 1]].date_calendar # None
    /\ ContentMarks(cards[Len(cards) - 1]) >= 1
    /\ activities # <<>>
    /\ cur.type # None /\ cur.content = <<>>

\* the k-th activity of a document, from the identifier of the document and the
\* cards consumed alone: the author of the k-th author card, the type, timestamp
\* and visibility of the last type + timestamp card before the next author card,
\* the blocks of the content cards between the two, joined, and cleaned for the
\* public activity that the end of the loop closes
ActivityOfDocument(k) ==
    LET opened == [ticket_id |-> HTML_FILES[html_file],
                   author |-> Card[cards[NthOf(AuthorPositions, k)]].createdby,
                   type |-> None, timestamp |-> None, visibility |-> None,
                   content |-> <<>>]
        label  == Card[cards[Largest(TypeCardsOf(k))]].label
        typed  == IF TypeCardsOf(k) = {} THEN opened
                  ELSE [opened EXCEPT
                           !.type = normalize_type(label),
                           !.timestamp = Card[cards[Largest(TypeCardsOf(k))]].date_calendar,
                           !.visibility = IF normalize_type(label) = InternalWorkNotes
                                          THEN Internal ELSE Public]
        joined == Join(BlankLine, ExpectedBlocks(k))
    IN  [typed EXCEPT !.content =
            IF k = Opened /\ typed.visibility = Public
            THEN clean_public_content(joined) ELSE joined]

ActivitiesOfDocument == [k \in 1..Opened |-> ActivityOfDocument(k)]

\* the activities of the list whose type is a KB type and whose content has a
\* visible character, in order
RECURSIVE KeptFrom(_, _)
KeptFrom(acts, i) ==
    IF i > Len(acts) THEN <<>>
    ELSE IF IsKbType(acts[i].type) /\ HasVisibleChar(acts[i].content)
         THEN <<acts[i]>> \o KeptFrom(acts, i + 1)
    ELSE KeptFrom(acts, i + 1)

\* C20: in the call for any file of the batch, the loop starts with no open
\* activity and an empty list; the open activity and the activities of the list
\* carry the ticket_id of the file; at the return the list of activities and
\* the entries are those that the identifier of the file and its cards alone
\* decide, whatever the calls before left behind.
C20_NoStateAcrossDocuments ==
    /\ (pc = "loop" /\ cards = <<>>) => current_activity = <<>> /\ activities = <<>>
    /\ Open => cur.ticket_id = HTML_FILES[html_file]
    /\ pc = "loop" => Len(activities) = EmittedCount
    /\ (pc = "done" /\ cards # <<>>) =>
          /\ activities = ActivitiesOfDocument
          /\ kb_entries = KeptFrom(activities, 1)
    /\ (pc = "done" /\ cards = <<>>) => kb_entries = <<>>

\* the call for the second file has returned an entry; the call for the first
\* file returned one too and so left an activity behind, and the second file
\* starts with a content card
C20_Witness ==
    /\ pc = "done" /\ html_file = 2
    /\ returned # <<>> /\ returned[1] # <<>>
    /\ kb_entries # <<>>
    /\ cards # <<>> /\ IsContentFragment(cards[1])

=============================================================================
